---- MODULE Spec2Model ----
(***************************************************************************)
(* DEAD//CHAT (server.js): a single-threaded WebSocket chat relay.         *)
(*                                                                         *)
(* The state is the module state of server.js (clients, nextId, history),  *)
(* the part of each net.Socket the code reads (destroyed, the queued       *)
(* 'error' and 'close' events of its once-listeners) and the clock read by *)
(* Date.now().  Every event-loop callback of server.js is one action.      *)
(* A socket is named by the id of the client record created for it; the    *)
(* socket of a refused upgrade is never stored and is named 0.             *)
(***************************************************************************)
EXTENDS Integers, Sequences, FiniteSets, TLC

VARIABLES
    clients,       \* Map socket -> { id, nick, alive, buf, rateCount, rateStart }
    nextId,        \* let nextId = 1
    history,       \* const history = []
    destroyed,     \* sockets with socket.destroyed === true
    pendingError,  \* sockets whose 'error' event is queued, not yet emitted
    pendingClose,  \* sockets whose 'close' event is queued, not yet emitted
    now,           \* the value Date.now() returns
    running,       \* the Node process is up: no callback threw an uncaught exception
    codec,         \* a text taken through buildFrame and parseFrame on its own
    sent,          \* what the last callback wrote to sockets and console, in order
    closure,       \* socket -> the const nick captured by its listeners
    log,           \* observer: every entry ever passed to addToHistory, in order
    desired,       \* observer: registered socket -> the sanitized nick it asked for
    leaves,        \* observer: socket -> number of leave messages appended for it
    quiet,         \* observer: registered socket -> ticks since its last inbound chunk
    heard          \* observer: registered socket -> what it sent since the last tick

vars == <<clients, nextId, history, destroyed, pendingError, pendingClose, now,
          running, codec, sent, closure, log, desired, leaves, quiet, heard>>

\* ── Config (server.js lines 24-31) ──────────────────────────────────────────
MAX_HISTORY == 50
MAX_NICK_LEN == 24
MAX_MSG_LEN == 1000
MAX_CLIENTS == 100
RATE_LIMIT_MSG == 5
RATE_LIMIT_WIN == 1000

\* ── Bounds of the explored environment ──────────────────────────────────────
MaxSockets == 3       \* sockets admitted in the lifecycle runs
MaxLog == 3           \* history entries after which their clients stop sending
AliveSockets == 2     \* the same two bounds in the keepalive runs
AliveLog == 3
RateSockets == 1      \* in the rate-limit runs
RateLog == 4
RateClock == 1001     \* the clock stops advancing here
HistBase == 48        \* connections already admitted when the history runs start
HistSockets == 1      \* sockets admitted on top of them
HistLog == 3          \* history entries appended on top of theirs
FullBase == 99        \* the same three bounds in the runs at the connection cap
FullSockets == 2
FullLog == 3
MalSockets == 2       \* in the runs with malformed payloads
MalLog == 3
CancelSockets == 1    \* in the runs with frames behind a close frame or a kick
CancelLog == 2
BurstSockets == 1     \* in the runs with bursts across a window boundary
BurstLog == 12
BurstClock == 2001
LongSockets == 2      \* in the runs with nicknames of full length
LongLog == 3
FairSockets == 2      \* in the runs with fair delivery of socket events
FairLog == 2
MaxStream == 2        \* frames in a stream that arrives split into chunks
CodecShort == 2000    \* payload lengths 0..CodecShort in the codec runs
CodecSpan == 3        \* and the lengths within CodecSpan of 65536

\* ── Small helpers ───────────────────────────────────────────────────────────
Min(a, b) == IF a < b THEN a ELSE b

Range(f) == {f[x] : x \in DOMAIN f}

\* Array.prototype.slice(0, n) / String.prototype.slice(0, n)
Slice0(s, n) == SubSeq(s, 1, Min(Len(s), n))

\* clients.delete(sock)
MapDelete(m, s) == [t \in (DOMAIN m) \ {s} |-> m[t]]

\* clients.set(socket, client), socket not yet a key: appended in insertion order
MapSet(m, s, c) == [t \in (DOMAIN m) \cup {s} |-> IF t = s THEN c ELSE m[t]]

\* ── History ─────────────────────────────────────────────────────────────────
\* addToHistory that never evicts
addToHistoryUnbounded(h, msg) == Append(h, msg)

addToHistory(h, msg) ==
    LET pushed == Append(h, msg)
    IN  IF Len(pushed) > MAX_HISTORY THEN Tail(pushed) ELSE pushed

\* ── Characters ──────────────────────────────────────────────────────────────
Digits == <<"0", "1", "2", "3", "4", "5", "6", "7", "8", "9">>

\* \w of the regular expression in sanitizeNick: [A-Za-z0-9_]
WordChars ==
    {"a", "b", "c", "d", "e", "f", "g", "h", "i", "j", "k", "l", "m",
     "n", "o", "p", "q", "r", "s", "t", "u", "v", "w", "x", "y", "z",
     "A", "B", "C", "D", "E", "F", "G", "H", "I", "J", "K", "L", "M",
     "N", "O", "P", "Q", "R", "S", "T", "U", "V", "W", "X", "Y", "Z",
     "_"} \cup Range(Digits)

\* the characters /[^\w\-. ]/g keeps
NickChars == WordChars \cup {"-", ".", " "}

WhiteSpace == {" ", "\t", "\n", "\r"}

\* String.prototype.trim()
RECURSIVE TrimStart(_)
TrimStart(s) ==
    IF s # <<>> /\ Head(s) \in WhiteSpace THEN TrimStart(Tail(s)) ELSE s

RECURSIVE TrimEnd(_)
TrimEnd(s) ==
    IF s # <<>> /\ s[Len(s)] \in WhiteSpace
    THEN TrimEnd(SubSeq(s, 1, Len(s) - 1))
    ELSE s

Trim(s) == TrimEnd(TrimStart(s))

\* `${n}` for a non-negative integer n
RECURSIVE Decimal(_)
Decimal(n) ==
    IF n < 10 THEN <<Digits[n + 1]>>
    ELSE Decimal(n \div 10) \o <<Digits[(n % 10) + 1]>>

Anonymous == <<"A", "n", "o", "n", "y", "m", "o", "u", "s">>

\* ── Nick helpers ────────────────────────────────────────────────────────────
sanitizeNick(raw) ==
    LET isKept(c) == c \in NickChars
        trimmed == Slice0(SelectSeq(Trim(raw), isKept), MAX_NICK_LEN)
    IN  IF trimmed # <<>> THEN trimmed ELSE Anonymous

\* new Set([...clients.values()].map(c => c.nick))
Taken(cl) == {cl[s].nick : s \in DOMAIN cl}

\* let n = 2; while (taken.has(`${desired}${n}`)) n++;
RECURSIVE NickLoop(_, _, _)
NickLoop(want, taken, n) ==
    IF (want \o Decimal(n)) \in taken
    THEN NickLoop(want, taken, n + 1)
    ELSE want \o Decimal(n)

\* uniqueNick without the while loop: always the suffix 2
uniqueNickNoLoop(want, cl) ==
    IF want \notin Taken(cl) THEN want ELSE want \o Decimal(2)

\* uniqueNick with the suffixes counted from 1
uniqueNickFromOne(want, cl) ==
    IF want \notin Taken(cl) THEN want ELSE NickLoop(want, Taken(cl), 1)

uniqueNick(want, cl) ==
    LET taken == Taken(cl)
    IN  IF want \notin taken THEN want ELSE NickLoop(want, taken, 2)

\* ── Frames the server writes ────────────────────────────────────────────────
\* socket.write(buildFrame(JSON.stringify(obj))): a text frame carrying obj
TextFrame(obj) == [kind |-> "text", obj |-> obj]

buildPing == [kind |-> "ping"]

buildClose == [kind |-> "close"]

PongFrame == [kind |-> "pong"]

HttpResponse(status) == [kind |-> "http", status |-> status]

Write(to, data) == [to |-> to, data |-> data]

\* console.log / console.error of a line with the given tag about client id
Console == 0 - 1

LogLine(tag, id) == Write(Console, [kind |-> tag, id |-> id])

\* send(socket, obj): nothing is written to a destroyed socket
send(s, obj, dead) == IF s \in dead THEN <<>> ELSE <<Write(s, TextFrame(obj))>>

\* the keys of a Map in insertion order; sockets are inserted in id order, and
\* during an admission the newest key is nextId
InOrder(S) == SelectSeq([i \in 1..nextId |-> i], LAMBDA i : i \in S)

\* broadcast leaving its loop at the first destroyed socket (break for continue)
broadcastUntilDestroyed(obj, cl, dead) ==
    LET order == InOrder(DOMAIN cl)
        stops == {i \in 1..Len(order) : order[i] \in dead}
        last == IF stops = {} THEN Len(order)
                ELSE (CHOOSE i \in stops : \A j \in stops : i <= j) - 1
    IN  [i \in 1..last |-> Write(order[i], TextFrame(obj))]

\* broadcast(obj): one write per registered socket that is not destroyed
broadcast(obj, cl, dead) ==
    LET order == InOrder(DOMAIN cl)
        live == SelectSeq(order, LAMBDA s : s \notin dead)
    IN  [i \in 1..Len(live) |-> Write(live[i], TextFrame(obj))]

\* ── WebSocket: frame building ──────────────────────────────────────────────
\* header.writeUInt16BE(len, 2) / header.writeUInt32BE(len, 6)
UInt16BE(n) == <<(n \div 256) % 256, n % 256>>

UInt32BE(n) ==
    <<(n \div 16777216) % 256, (n \div 65536) % 256, (n \div 256) % 256, n % 256>>

\* buildFrame with the first boundary off by one (<= 126 for < 126)
buildFrameShortHeader(payload) ==
    LET len == Len(payload)
    IN  IF len <= 126 THEN <<129, len>> \o payload
        ELSE IF len < 65536 THEN <<129, 126>> \o UInt16BE(len) \o payload
        ELSE <<129, 127>> \o UInt32BE(0) \o UInt32BE(len) \o payload

\* buildFrame(text) on the UTF-8 bytes of text
buildFrame(payload) ==
    LET len == Len(payload)
    IN  IF len < 126 THEN <<129, len>> \o payload
        ELSE IF len < 65536 THEN <<129, 126>> \o UInt16BE(len) \o payload
        ELSE <<129, 127>> \o UInt32BE(0) \o UInt32BE(len) \o payload

\* ── WebSocket: frame parsing ────────────────────────────────────────────────
\* a ^ b on bytes
RECURSIVE Xor(_, _)
Xor(a, b) ==
    IF a = 0 /\ b = 0 THEN 0
    ELSE ((a + b) % 2) + 2 * Xor(a \div 2, b \div 2)

\* parseFrame returning null
NoFrame == [ok |-> FALSE]

\* parseFrame(buf): bytes are buf[1..Len(buf)], so buf[i] here is buf[i-1] there
parseFrame(buf) ==
    IF Len(buf) < 2 THEN NoFrame
    ELSE
    LET opcode == buf[1] % 16
        masked == buf[2] >= 128
        len7 == buf[2] % 128
        short == (len7 = 126 /\ Len(buf) < 4) \/ (len7 = 127 /\ Len(buf) < 10)
        payLen == IF len7 = 126 THEN buf[3] * 256 + buf[4]
                  ELSE IF len7 = 127
                       THEN buf[7] * 16777216 + buf[8] * 65536 + buf[9] * 256 + buf[10]
                       ELSE len7
        offset == IF len7 = 126 THEN 4 ELSE IF len7 = 127 THEN 10 ELSE 2
    IN  IF short THEN NoFrame
        ELSE IF masked
        THEN IF Len(buf) < offset + 4 + payLen THEN NoFrame
             ELSE [ok |-> TRUE, opcode |-> opcode,
                   payload |-> [i \in 1..payLen |->
                                  Xor(buf[offset + 4 + i], buf[offset + 1 + ((i - 1) % 4)])],
                   totalLength |-> offset + 4 + payLen]
        ELSE IF Len(buf) < offset + payLen THEN NoFrame
             ELSE [ok |-> TRUE, opcode |-> opcode,
                   payload |-> SubSeq(buf, offset + 1, offset + payLen),
                   totalLength |-> offset + payLen]

\* ── Payloads ────────────────────────────────────────────────────────────────
\* JSON.parse(frame.payload.toString('utf8')) on the payloads the explored
\* clients send.  Each explored JSON text is abbreviated to a one-byte payload:
\*   109 'm'  {"type":"message","text":"hi"}
\*    98 'b'  {"type":"message","text":" "}
\*   112 'p'  {"type":"ping"}
\*   110 'n'  null
\*    49 '1'  1
\*   115 's'  "s"
\*    97 'a'  []
\*   111 'o'  {"type":"other"}
\*   116 't'  {"type":"message","text":1}
\* and every other payload is text JSON.parse throws on.  isNull: the value is
\* null, of which no property can be read; a number, a string and an array have
\* no property type.
PayloadChat == <<109>>

PayloadBlank == <<98>>

PayloadKeepalive == <<112>>

PayloadJunk == <<120>>

PayloadNull == <<110>>

PayloadNumber == <<49>>

PayloadString == <<115>>

PayloadArray == <<97>>

PayloadOther == <<111>>

PayloadNoText == <<116>>

Parsed(type, textIsString, text) ==
    [ok |-> TRUE, isNull |-> FALSE, type |-> type, textIsString |-> textIsString,
     text |-> text]

JSONParse(payload) ==
    IF payload = PayloadChat THEN Parsed("message", TRUE, <<"h", "i">>)
    ELSE IF payload = PayloadBlank THEN Parsed("message", TRUE, <<" ">>)
    ELSE IF payload = PayloadKeepalive THEN Parsed("ping", FALSE, <<>>)
    ELSE IF payload = PayloadNull THEN [Parsed("", FALSE, <<>>) EXCEPT !.isNull = TRUE]
    ELSE IF payload \in {PayloadNumber, PayloadString, PayloadArray}
    THEN Parsed("", FALSE, <<>>)
    ELSE IF payload = PayloadOther THEN Parsed("other", FALSE, <<>>)
    ELSE IF payload = PayloadNoText THEN Parsed("message", FALSE, <<>>)
    ELSE [Parsed("", FALSE, <<>>) EXCEPT !.ok = FALSE]

\* ── Messages ────────────────────────────────────────────────────────────────
JoinedText == <<" ", "j", "o", "i", "n", "e", "d">>

LeftText == <<" ", "l", "e", "f", "t">>

SystemMsg(text, ts, count) ==
    [type |-> "system", text |-> text, ts |-> ts, count |-> count]

ChatMsg(nick, text, ts) ==
    [type |-> "message", nick |-> nick, text |-> text, ts |-> ts]

WarnText ==
    <<"R", "a", "t", "e", " ", "l", "i", "m", "i", "t", " ", "e", "x", "c", "e",
      "e", "d", "e", "d", ".", " ", "D", "i", "s", "c", "o", "n", "n", "e", "c",
      "t", "i", "n", "g", ".">>

WarnMsg(ts) == [type |-> "system", text |-> WarnText, ts |-> ts]

HistoryMsg(h) == [type |-> "history", messages |-> h]

IdentityMsg(nick) == [type |-> "identity", nick |-> nick]

\* ── Initial state: the module state of server.js after it is loaded ─────────
Init ==
    /\ clients = <<>>
    /\ nextId = 1
    /\ history = <<>>
    /\ destroyed = {}
    /\ pendingError = {}
    /\ pendingClose = {}
    /\ now = 0
    /\ running = TRUE
    /\ codec = [stage |-> "none"]
    /\ sent = <<>>
    /\ closure = <<>>
    /\ log = <<>>
    /\ desired = <<>>
    /\ leaves = <<>>
    /\ quiet = <<>>
    /\ heard = <<>>

Observers == <<log, desired, leaves, quiet, heard>>

Sockets == <<destroyed, pendingError, pendingClose>>

\* ── server.on('upgrade') and handleUpgrade ──────────────────────────────────
\* socket.destroy() on the socket of a refused upgrade, which is never stored
DestroyFrame == [kind |-> "destroy"]

\* the cap tested with > for >=
AtCapacityOffByOne(cl) == Cardinality(DOMAIN cl) > MAX_CLIENTS

\* if (clients.size >= MAX_CLIENTS)
AtCapacity(cl) == Cardinality(DOMAIN cl) >= MAX_CLIENTS

\* parsed.query.nick || 'Anonymous'
QueryNick(rawNick) == IF rawNick # <<>> THEN rawNick ELSE Anonymous

\* handleUpgrade announcing the join before it sends the history snapshot
AdmitJoinFirst(rawNick) ==
    LET id == nextId
        want == sanitizeNick(QueryNick(rawNick))
        nick == uniqueNick(want, clients)
        client == [id |-> id, nick |-> nick, alive |-> TRUE, buf |-> <<>>,
                   rateCount |-> 0, rateStart |-> now]
        cl == MapSet(clients, id, client)
        joinMsg == SystemMsg(nick \o JoinedText, now, Cardinality(DOMAIN cl))
    IN  /\ clients' = cl
        /\ nextId' = nextId + 1
        /\ history' = addToHistory(history, joinMsg)
        /\ sent' = <<LogLine("upgrade", 0), Write(id, HttpResponse(101)),
                     LogLine("join", id)>>
                   \o send(id, HistoryMsg(addToHistory(history, joinMsg)), destroyed)
                   \o send(id, IdentityMsg(nick), destroyed)
                   \o broadcast(joinMsg, cl, destroyed)
        /\ closure' = MapSet(closure, id, nick)
        /\ log' = Append(log, joinMsg)
        /\ desired' = MapSet(desired, id, want)
        /\ leaves' = MapSet(leaves, id, 0)
        /\ quiet' = MapSet(quiet, id, 0)
        /\ heard' = MapSet(heard, id, {})
        /\ UNCHANGED <<now, running, codec, Sockets>>

\* the handshake succeeded: the rest of handleUpgrade
Admit(rawNick) ==
    LET id == nextId
        want == sanitizeNick(QueryNick(rawNick))
        nick == uniqueNick(want, clients)
        client == [id |-> id, nick |-> nick, alive |-> TRUE, buf |-> <<>>,
                   rateCount |-> 0, rateStart |-> now]
        cl == MapSet(clients, id, client)
        joinMsg == SystemMsg(nick \o JoinedText, now, Cardinality(DOMAIN cl))
    IN  /\ clients' = cl
        /\ nextId' = nextId + 1
        /\ history' = addToHistory(history, joinMsg)
        /\ sent' = <<LogLine("upgrade", 0), Write(id, HttpResponse(101)),
                     LogLine("join", id)>>
                   \o (IF Len(history) > 0
                       THEN send(id, HistoryMsg(history), destroyed) ELSE <<>>)
                   \o send(id, IdentityMsg(nick), destroyed)
                   \o broadcast(joinMsg, cl, destroyed)
        /\ closure' = MapSet(closure, id, nick)
        /\ log' = Append(log, joinMsg)
        /\ desired' = MapSet(desired, id, want)
        /\ leaves' = MapSet(leaves, id, 0)
        /\ quiet' = MapSet(quiet, id, 0)
        /\ heard' = MapSet(heard, id, {})
        /\ UNCHANGED <<now, running, codec, Sockets>>

\* a refused upgrade: the response written, if any, then socket.destroy()
Refuse(response) ==
    /\ sent' = response \o <<Write(0, DestroyFrame)>>
    /\ UNCHANGED <<clients, nextId, history, now, running, codec, closure, Sockets,
                   Observers>>

\* handleUpgrade(req, socket) with doHandshake; hasKey: the request carries
\* Sec-WebSocket-Key
handleUpgrade(hasKey, rawNick) ==
    IF AtCapacity(clients)
    THEN Refuse(<<LogLine("reject", 0), Write(0, HttpResponse(503))>>)
    ELSE IF ~hasKey THEN Refuse(<<>>)
    ELSE Admit(rawNick)

\* server.on('upgrade'): only /chat/ws reaches handleUpgrade
Upgrade(chatPath, hasKey, rawNick) ==
    /\ running
    /\ IF chatPath THEN handleUpgrade(hasKey, rawNick) ELSE Refuse(<<>>)

\* ── Disconnect ──────────────────────────────────────────────────────────────
\* onClose without its first line, if (!clients.has(socket)) return
onCloseUnguarded(s) ==
    LET cl == MapDelete(clients, s)
        leaveMsg == SystemMsg(closure[s] \o LeftText, now, Cardinality(DOMAIN cl))
    IN  [clients |-> cl,
         history |-> addToHistory(history, leaveMsg),
         sent |-> <<LogLine("leave", s)>> \o broadcast(leaveMsg, cl, destroyed),
         left |-> <<leaveMsg>>]

\* onClose announcing the leave without clients.delete(id)
onCloseNoDelete(s) ==
    IF s \notin DOMAIN clients
    THEN [clients |-> clients, history |-> history, sent |-> <<>>, left |-> <<>>]
    ELSE LET leaveMsg == SystemMsg(closure[s] \o LeftText, now,
                                   Cardinality(DOMAIN clients))
         IN  [clients |-> clients,
              history |-> addToHistory(history, leaveMsg),
              sent |-> <<LogLine("leave", s)>> \o broadcast(leaveMsg, clients, destroyed),
              left |-> <<leaveMsg>>]

\* onClose for socket s: the state it leaves, as [clients, history, sent, left]
onClose(s) ==
    IF s \notin DOMAIN clients
    THEN [clients |-> clients, history |-> history, sent |-> <<>>, left |-> <<>>]
    ELSE LET cl == MapDelete(clients, s)
             leaveMsg == SystemMsg(closure[s] \o LeftText, now,
                                   Cardinality(DOMAIN cl))
         IN  [clients |-> cl,
              history |-> addToHistory(history, leaveMsg),
              sent |-> <<LogLine("leave", s)>> \o broadcast(leaveMsg, cl, destroyed),
              left |-> <<leaveMsg>>]

Teardown(s, r, logged) ==
    /\ clients' = r.clients
    /\ history' = r.history
    /\ sent' = logged \o r.sent
    /\ log' = log \o r.left
    /\ leaves' = [leaves EXCEPT ![s] = @ + Len(r.left)]
    /\ desired' = [t \in DOMAIN r.clients |-> desired[t]]
    /\ quiet' = [t \in DOMAIN r.clients |-> quiet[t]]
    /\ heard' = [t \in DOMAIN r.clients |-> heard[t]]

\* the socket fails (read or write error): Node destroys it and queues 'error'
\* and then 'close'
SocketError(s) ==
    /\ running
    /\ s \in 1..(nextId - 1)
    /\ s \notin destroyed
    /\ destroyed' = destroyed \cup {s}
    /\ pendingError' = pendingError \cup {s}
    /\ pendingClose' = pendingClose \cup {s}
    /\ sent' = <<>>
    /\ UNCHANGED <<clients, nextId, history, now, running, codec, closure, Observers>>

\* the peer ends the TCP connection without a close frame: Node destroys the
\* socket and queues 'close'
SocketEnd(s) ==
    /\ running
    /\ s \in 1..(nextId - 1)
    /\ s \notin destroyed
    /\ destroyed' = destroyed \cup {s}
    /\ pendingClose' = pendingClose \cup {s}
    /\ sent' = <<>>
    /\ UNCHANGED <<clients, nextId, history, now, running, codec, closure, pendingError,
                   Observers>>

\* socket.once('error', ...): logs and calls onClose()
EmitError(s) ==
    /\ running
    /\ s \in pendingError
    /\ pendingError' = pendingError \ {s}
    /\ Teardown(s, onClose(s), <<LogLine("error", s)>>)
    /\ UNCHANGED <<nextId, now, running, codec, closure, destroyed, pendingClose>>

\* socket.once('close', onClose); 'close' follows 'error' and is the last event
\* of the socket, after which its listeners and their closure are dropped
EmitClose(s) ==
    /\ running
    /\ s \in pendingClose
    /\ s \notin pendingError
    /\ pendingClose' = pendingClose \ {s}
    /\ Teardown(s, onClose(s), <<>>)
    /\ closure' = MapDelete(closure, s)
    /\ UNCHANGED <<nextId, now, running, codec, destroyed, pendingError>>

\* ── Data handler ────────────────────────────────────────────────────────────
\* the handler forgetting the bytes it kept (client.buf = chunk)
\* The handler's locals while it runs for socket s: the client's fields, the
\* history, what it wrote, what it appended, whether it called
\* socket.destroy() and returned, and whether it threw.
HandlerStartNoConcat(s, chunk) ==
    [buf |-> chunk,
     alive |-> clients[s].alive,
     rateCount |-> clients[s].rateCount,
     rateStart |-> clients[s].rateStart,
     history |-> history,
     sent |-> <<>>,
     appended |-> <<>>,
     dead |-> FALSE,
     threw |-> FALSE]

HandlerStart(s, chunk) ==
    [buf |-> clients[s].buf \o chunk,
     alive |-> clients[s].alive,
     rateCount |-> clients[s].rateCount,
     rateStart |-> clients[s].rateStart,
     history |-> history,
     sent |-> <<>>,
     appended |-> <<>>,
     dead |-> FALSE,
     threw |-> FALSE]

\* the window reset as soon as the window length has elapsed (>= for >)
RateWindowEarly(st) ==
    IF now - st.rateStart >= RATE_LIMIT_WIN
    THEN [rateStart |-> now, rateCount |-> 0 + 1]
    ELSE [rateStart |-> st.rateStart, rateCount |-> st.rateCount + 1]

\* a window that restarts but never counts
RateWindowUncounted(st) ==
    IF now - st.rateStart > RATE_LIMIT_WIN
    THEN [rateStart |-> now, rateCount |-> 0]
    ELSE [rateStart |-> st.rateStart, rateCount |-> st.rateCount]

\* the rate window after one more chat message: [rateStart, rateCount]
RateWindow(st) ==
    IF now - st.rateStart > RATE_LIMIT_WIN
    THEN [rateStart |-> now, rateCount |-> 0 + 1]
    ELSE [rateStart |-> st.rateStart, rateCount |-> st.rateCount + 1]

\* a pong frame that goes unnoticed
OnPongIgnored(st) == st

\* if (frame.opcode === 0xA) { client.alive = true; continue; }
OnPong(st) == [st EXCEPT !.alive = TRUE]

\* a client keepalive that goes unnoticed
OnClientPingIgnored(st) == st

\* if (parsed.type === 'ping') { client.alive = true; }
OnClientPing(st) == [st EXCEPT !.alive = TRUE]

\* the text branch dropping an empty text before the rate limit counts it
TextBranchEmptyFirst(s, st, parsed) ==
    IF ~parsed.ok THEN st
    ELSE IF parsed.isNull THEN [st EXCEPT !.threw = TRUE]
    ELSE IF parsed.type = "message" /\ parsed.textIsString
    THEN LET w == RateWindow(st)
             counted == [st EXCEPT !.rateStart = w.rateStart,
                                   !.rateCount = w.rateCount]
             text == Slice0(Trim(parsed.text), MAX_MSG_LEN)
             msg == ChatMsg(clients[s].nick, text, now)
         IN  IF text = <<>> THEN st
             ELSE IF w.rateCount > RATE_LIMIT_MSG
             THEN [counted EXCEPT !.sent = @ \o <<LogLine("rate-kick", s)>>
                                              \o send(s, WarnMsg(now), destroyed),
                                  !.dead = TRUE]
             ELSE [counted EXCEPT !.history = addToHistory(@, msg),
                                  !.appended = Append(@, msg),
                                  !.sent = @ \o broadcast(msg, clients, destroyed)]
    ELSE IF parsed.type = "ping" THEN OnClientPing(st)
    ELSE st

\* the text branch for one frame
TextBranch(s, st, parsed) ==
    IF ~parsed.ok THEN st
    ELSE IF parsed.isNull THEN [st EXCEPT !.threw = TRUE]
    ELSE IF parsed.type = "message" /\ parsed.textIsString
    THEN LET w == RateWindow(st)
             counted == [st EXCEPT !.rateStart = w.rateStart,
                                   !.rateCount = w.rateCount]
             text == Slice0(Trim(parsed.text), MAX_MSG_LEN)
             msg == ChatMsg(clients[s].nick, text, now)
         IN  IF w.rateCount > RATE_LIMIT_MSG
             THEN [counted EXCEPT !.sent = @ \o <<LogLine("rate-kick", s)>>
                                              \o send(s, WarnMsg(now), destroyed),
                                  !.dead = TRUE]
             ELSE IF text = <<>> THEN counted
             ELSE [counted EXCEPT !.history = addToHistory(@, msg),
                                  !.appended = Append(@, msg),
                                  !.sent = @ \o broadcast(msg, clients, destroyed)]
    ELSE IF parsed.type = "ping" THEN OnClientPing(st)
    ELSE st

\* the read loop going on to the next frame after a close frame (continue for
\* return)
RECURSIVE ReadLoopPastClose(_, _)
ReadLoopPastClose(s, st) ==
    IF Len(st.buf) < 2 THEN st
    ELSE
    LET frame == parseFrame(st.buf)
    IN  IF ~frame.ok THEN st
        ELSE
        LET rest == [st EXCEPT !.buf = SubSeq(@, frame.totalLength + 1, Len(@))]
        IN  IF frame.opcode = 8
            THEN ReadLoopPastClose(s, [rest EXCEPT !.sent = @ \o <<Write(s, buildClose)>>,
                                                   !.dead = TRUE])
            ELSE IF frame.opcode = 9
            THEN ReadLoopPastClose(s, [rest EXCEPT !.sent = @ \o <<Write(s, PongFrame)>>])
            ELSE IF frame.opcode = 10
            THEN ReadLoopPastClose(s, OnPong(rest))
            ELSE IF frame.opcode = 1 \/ frame.opcode = 0
            THEN LET after == TextBranch(s, rest, JSONParse(frame.payload))
                 IN  IF after.dead \/ after.threw THEN after
                     ELSE ReadLoopPastClose(s, after)
            ELSE ReadLoopPastClose(s, rest)

\* while (client.buf.length >= 2) { ... }
RECURSIVE ReadLoop(_, _)
ReadLoop(s, st) ==
    IF Len(st.buf) < 2 THEN st
    ELSE
    LET frame == parseFrame(st.buf)
    IN  IF ~frame.ok THEN st
        ELSE
        LET rest == [st EXCEPT !.buf = SubSeq(@, frame.totalLength + 1, Len(@))]
        IN  IF frame.opcode = 8
            THEN [rest EXCEPT !.sent = @ \o <<Write(s, buildClose)>>, !.dead = TRUE]
            ELSE IF frame.opcode = 9
            THEN ReadLoop(s, [rest EXCEPT !.sent = @ \o <<Write(s, PongFrame)>>])
            ELSE IF frame.opcode = 10
            THEN ReadLoop(s, OnPong(rest))
            ELSE IF frame.opcode = 1 \/ frame.opcode = 0
            THEN LET after == TextBranch(s, rest, JSONParse(frame.payload))
                 IN  IF after.dead \/ after.threw THEN after
                     ELSE ReadLoop(s, after)
            ELSE ReadLoop(s, rest)

\* socket.on('data', chunk => ...) for a registered socket that is not destroyed
OnData(s, chunk) ==
    LET st == ReadLoop(s, HandlerStart(s, chunk))
    IN  /\ running
        /\ s \in DOMAIN clients
        /\ s \notin destroyed
        /\ running' = ~st.threw
        /\ clients' = [clients EXCEPT ![s].buf = st.buf,
                                      ![s].alive = st.alive,
                                      ![s].rateCount = st.rateCount,
                                      ![s].rateStart = st.rateStart]
        /\ history' = st.history
        /\ sent' = st.sent
        /\ destroyed' = IF st.dead THEN destroyed \cup {s} ELSE destroyed
        /\ pendingClose' = IF st.dead THEN pendingClose \cup {s} ELSE pendingClose
        /\ log' = log \o st.appended
        /\ UNCHANGED <<nextId, now, closure, pendingError, desired, leaves>>

\* ── What the explored clients send ──────────────────────────────────────────
\* RFC 6455 frames as a client builds them: FIN set, 7-bit length
ClientFrame(opcode, payload) == <<128 + opcode, Len(payload)>> \o payload

MaskKey == <<1, 2, 3, 4>>

ClientMasked(opcode, payload) ==
    <<128 + opcode, 128 + Len(payload)>> \o MaskKey
        \o [i \in 1..Len(payload) |-> Xor(payload[i], MaskKey[1 + ((i - 1) % 4)])]

ClientFrames ==
    {[kind |-> "close", bytes |-> ClientFrame(8, <<>>)],
     [kind |-> "ping", bytes |-> ClientFrame(9, <<>>)],
     [kind |-> "pong", bytes |-> ClientFrame(10, <<>>)],
     [kind |-> "pong", bytes |-> ClientMasked(10, <<>>)],
     [kind |-> "chat", bytes |-> ClientFrame(1, PayloadChat)],
     [kind |-> "chat", bytes |-> ClientMasked(1, PayloadChat)],
     [kind |-> "blank", bytes |-> ClientFrame(1, PayloadBlank)],
     [kind |-> "keepalive", bytes |-> ClientFrame(1, PayloadKeepalive)],
     [kind |-> "junk", bytes |-> ClientFrame(1, PayloadJunk)],
     [kind |-> "null", bytes |-> ClientFrame(1, PayloadNull)],
     [kind |-> "number", bytes |-> ClientFrame(1, PayloadNumber)],
     [kind |-> "string", bytes |-> ClientFrame(1, PayloadString)],
     [kind |-> "array", bytes |-> ClientFrame(1, PayloadArray)],
     [kind |-> "other", bytes |-> ClientFrame(1, PayloadOther)],
     [kind |-> "notext", bytes |-> ClientFrame(1, PayloadNoText)]}

RECURSIVE Bytes(_)
Bytes(fs) == IF fs = <<>> THEN <<>> ELSE Head(fs).bytes \o Bytes(Tail(fs))

Kinds(fs) == {fs[i].kind : i \in 1..Len(fs)}

\* what the liveness observer records of a chunk: "answer" for a pong frame or
\* a client keepalive, "other" for a chat message or a WebSocket ping frame
Activity(fs) ==
    (IF Kinds(fs) \cap {"pong", "keepalive"} # {} THEN {"answer"} ELSE {})
        \cup (IF Kinds(fs) \cap {"chat", "ping"} # {} THEN {"other"} ELSE {})

\* a chunk of frames fs arrives on socket s
Data(s, fs) ==
    /\ OnData(s, Bytes(fs))
    /\ quiet' = [quiet EXCEPT ![s] = 0]
    /\ heard' = [heard EXCEPT ![s] = @ \cup Activity(fs)]
    /\ UNCHANGED codec

\* ── Keepalive ping loop ─────────────────────────────────────────────────────
\* a loop that only drops destroyed sockets and never times one out
TickGoneDestroyedOnly == {s \in DOMAIN clients : s \in destroyed}

\* the sockets the loop deletes: destroyed ones and those found not alive
TickGone == {s \in DOMAIN clients : s \in destroyed \/ ~clients[s].alive}

\* the sockets the loop destroys itself (sock.destroy() on a live socket)
TickKilled == {s \in TickGone : s \notin destroyed}

\* observer: s delivered a pong frame or a client keepalive after the previous
\* tick
Answered(s) == "answer" \in heard[s]

KeepaliveTick ==
    LET kept == (DOMAIN clients) \ TickGone
        order == SelectSeq(InOrder(DOMAIN clients), LAMBDA s : s \notin destroyed)
    IN  /\ running
        /\ clients' = [s \in kept |-> [clients[s] EXCEPT !.alive = FALSE]]
        /\ destroyed' = destroyed \cup TickKilled
        /\ pendingClose' = pendingClose \cup TickKilled
        /\ sent' = [i \in 1..Len(order) |->
                        IF order[i] \in TickGone
                        THEN LogLine("timeout", order[i])
                        ELSE Write(order[i], buildPing)]
        /\ desired' = [s \in kept |-> desired[s]]
        /\ quiet' = [s \in kept |-> quiet[s] + 1]
        /\ heard' = [s \in kept |-> {}]
        /\ UNCHANGED <<nextId, history, now, running, codec, closure, pendingError, log,
                       leaves>>

\* ── The clock ───────────────────────────────────────────────────────────────
\* Date.now() moves on by a window length, or by one millisecond more
ClockSteps == {RATE_LIMIT_WIN, RATE_LIMIT_WIN + 1}

Advance(d, maxClock) ==
    /\ running
    /\ now + d <= maxClock
    /\ now' = now + d
    /\ sent' = <<>>
    /\ UNCHANGED <<clients, nextId, history, running, codec, closure, Sockets, Observers>>

\* ── The explored environment ────────────────────────────────────────────────
\* ?nick= values: "B", " B!" (sanitized to "B") and none
NickB == <<"B">>

NickDirty == <<" ", "B", "!">>

NoNick == <<>>

\* chunks of one frame each, of the given kinds
Single(kinds) == {<<f>> : f \in {g \in ClientFrames : g.kind \in kinds}}

\* The callbacks the event loop may run next, the keepalive timer apart.  The
\* environment env drives the sockets env.lo..env.hi, admits no socket beyond
\* env.hi, asks for the nicks env.nicks, sends the chunks env.chunks, and stops
\* joining and chatting once env.logCap entries were appended.
Events(env) ==
    \/ \E chatPath \in BOOLEAN, hasKey \in BOOLEAN, rawNick \in env.nicks :
          /\ (chatPath /\ hasKey /\ ~AtCapacity(clients))
                => (nextId <= env.hi /\ Len(log) < env.logCap)
          /\ Upgrade(chatPath, hasKey, rawNick)
    \/ \E s \in env.lo..env.hi, fs \in env.chunks :
          /\ ("chat" \in Kinds(fs)) => (Len(log) < env.logCap)
          /\ Data(s, fs)
    \/ \E s \in env.lo..env.hi : SocketError(s)
    \/ \E s \in env.lo..env.hi : SocketEnd(s)
    \/ \E s \in pendingError : EmitError(s)
    \/ \E s \in pendingClose : EmitClose(s)

\* connection lifecycle and nicknames: sockets that chat and close
Lifecycle ==
    [lo |-> 1, hi |-> MaxSockets, logCap |-> MaxLog,
     nicks |-> {NickB, NickDirty},
     chunks |-> Single({"close", "chat"})]

\* the timer callback may run between any two other callbacks
Next == Events(Lifecycle) \/ KeepaliveTick

Spec == Init /\ [][Next]_vars

\* Node emits the 'error' and 'close' events it queued for a destroyed socket:
\* a queued event is not put off forever
SocketEventsDelivered ==
    \A s \in 1..FairSockets : WF_vars(EmitError(s)) /\ WF_vars(EmitClose(s))

\* sockets that are destroyed in every way: close frame, error, end, timeout
Departing ==
    [lo |-> 1, hi |-> FairSockets, logCap |-> FairLog,
     nicks |-> {NickB},
     chunks |-> Single({"close", "chat"})]

NextFair == Events(Departing) \/ KeepaliveTick

SpecFair == Init /\ [][NextFair]_vars /\ SocketEventsDelivered

\* Node's event loop runs the queued 'error' and 'close' callbacks of an
\* iteration before the timers of the next: no tick while an event is queued
NextOrdered ==
    \/ Events(Lifecycle)
    \/ (pendingError = {} /\ pendingClose = {} /\ KeepaliveTick)

SpecOrdered == Init /\ [][NextOrdered]_vars

\* keepalive: sockets that send every kind of frame the liveness flag may
\* depend on
Keepalive ==
    [lo |-> 1, hi |-> AliveSockets, logCap |-> AliveLog,
     nicks |-> {NoNick},
     chunks |-> Single({"chat", "ping", "pong", "keepalive"})]

NextAlive == Events(Keepalive) \/ KeepaliveTick

SpecAlive == Init /\ [][NextAlive]_vars

\* rate limiting: chat messages, blank or not, while the clock advances; the
\* explored window of the clock is shorter than the keepalive interval
Rate ==
    [lo |-> 1, hi |-> RateSockets, logCap |-> RateLog,
     nicks |-> {NoNick},
     chunks |-> Single({"chat", "blank"})]

NextRate ==
    \/ Events(Rate)
    \/ \E d \in ClockSteps : Advance(d, RateClock)

SpecRate == Init /\ [][NextRate]_vars

\* The state after k upgrades without ?nick= were admitted in the same
\* millisecond and nothing else happened but a refused upgrade for another path.
BurstNick(i) == IF i = 1 THEN Anonymous ELSE Anonymous \o Decimal(i)

BurstJoin(i) == SystemMsg(BurstNick(i) \o JoinedText, 0, i)

BurstState(k) ==
    /\ clients = [s \in 1..k |->
                    [id |-> s, nick |-> BurstNick(s), alive |-> TRUE, buf |-> <<>>,
                     rateCount |-> 0, rateStart |-> 0]]
    /\ nextId = k + 1
    /\ log = [i \in 1..k |-> BurstJoin(i)]
    /\ history = [i \in 1..Min(k, MAX_HISTORY) |->
                    BurstJoin(i + k - Min(k, MAX_HISTORY))]
    /\ destroyed = {}
    /\ pendingError = {}
    /\ pendingClose = {}
    /\ now = 0
    /\ running = TRUE
    /\ sent = <<Write(0, DestroyFrame)>>
    /\ closure = [s \in 1..k |-> BurstNick(s)]
    /\ desired = [s \in 1..k |-> Anonymous]
    /\ leaves = [s \in 1..k |-> 0]
    /\ quiet = [s \in 1..k |-> 0]
    /\ heard = [s \in 1..k |-> {}]

InitBurst(k) == BurstState(k) /\ codec = [stage |-> "none"]

\* history near its capacity: the last of the admitted sockets and new ones
Hist ==
    [lo |-> HistBase, hi |-> HistBase + HistSockets, logCap |-> HistBase + HistLog,
     nicks |-> {NoNick},
     chunks |-> Single({"close", "chat"})]

\* the explored window is shorter than the keepalive interval
NextHist == Events(Hist)

SpecHist == InitBurst(HistBase) /\ [][NextHist]_vars

\* the registry at its cap
Full ==
    [lo |-> FullBase, hi |-> FullBase + FullSockets, logCap |-> FullBase + FullLog,
     nicks |-> {NoNick, NickB},
     chunks |-> Single({"close", "chat"})]

NextFull == Events(Full)

SpecFull == InitBurst(FullBase) /\ [][NextFull]_vars

\* malformed payloads: text frames that carry no client envelope, and chat
MalformedKinds == {"junk", "null", "number", "string", "array", "other", "notext"}

Malformed ==
    [lo |-> 1, hi |-> MalSockets, logCap |-> MalLog,
     nicks |-> {NoNick},
     chunks |-> Single(MalformedKinds \cup {"chat"})]

NextMalformed == Events(Malformed) \/ KeepaliveTick

SpecMalformed == Init /\ [][NextMalformed]_vars

\* chunks of two frames, the first of a kind in firsts, the second in seconds
Pairs(firsts, seconds) ==
    {<<f, g>> : f \in {h \in ClientFrames : h.kind \in firsts},
                g \in {h \in ClientFrames : h.kind \in seconds}}

\* cancellation: frames that end a connection, alone or with a frame behind them
Cancel ==
    [lo |-> 1, hi |-> CancelSockets, logCap |-> CancelLog,
     nicks |-> {NoNick},
     chunks |-> Single({"close", "blank"})
                \cup Pairs({"close", "blank"}, {"chat", "keepalive"})]

NextCancel == Events(Cancel) \/ KeepaliveTick

SpecCancel == Init /\ [][NextCancel]_vars

\* the codec on its own: a text of n bytes is built into a frame, and the frame
\* is parsed
Text(n) == [i \in 1..n |-> (7 * i) % 256]

CodecLens == (0..CodecShort) \cup ((65536 - CodecSpan)..(65536 + CodecSpan))

Server == <<clients, nextId, history, now, running, sent, closure, Sockets,
            Observers>>

InitCodec ==
    /\ clients = <<>>
    /\ nextId = 1
    /\ history = <<>>
    /\ destroyed = {}
    /\ pendingError = {}
    /\ pendingClose = {}
    /\ now = 0
    /\ running = TRUE
    /\ sent = <<>>
    /\ closure = <<>>
    /\ log = <<>>
    /\ desired = <<>>
    /\ leaves = <<>>
    /\ quiet = <<>>
    /\ heard = <<>>
    /\ \E n \in CodecLens : codec = [stage |-> "text", payload |-> Text(n)]

Build ==
    /\ codec.stage = "text"
    /\ codec' = [stage |-> "built", payload |-> codec.payload,
                 frame |-> buildFrame(codec.payload)]
    /\ UNCHANGED Server

Parse ==
    /\ codec.stage = "built"
    /\ codec' = [stage |-> "parsed", payload |-> codec.payload,
                 frame |-> codec.frame, parsed |-> parseFrame(codec.frame)]
    /\ UNCHANGED Server

NextCodec == Build \/ Parse

SpecCodec == InitCodec /\ [][NextCodec]_vars

\* chunking: a stream of frames reaches the one registered socket cut into
\* chunks at arbitrary bytes.  codec holds the bytes still to arrive, everything
\* the handler wrote so far, whether a chunk ended inside a frame, and whole, the
\* handler's run on the same stream arriving as one chunk.
ClientFrame16(opcode, payload) ==
    <<128 + opcode, 126>> \o UInt16BE(Len(payload)) \o payload

ClientFrame64(opcode, payload) ==
    <<128 + opcode, 127>> \o UInt32BE(0) \o UInt32BE(Len(payload)) \o payload

ClientMasked16(opcode, payload) ==
    <<128 + opcode, 128 + 126>> \o UInt16BE(Len(payload)) \o MaskKey
        \o [i \in 1..Len(payload) |-> Xor(payload[i], MaskKey[1 + ((i - 1) % 4)])]

StreamFrames ==
    {[kind |-> "chat", bytes |-> ClientFrame(1, PayloadChat)],
     [kind |-> "chat", bytes |-> ClientMasked(1, PayloadChat)],
     [kind |-> "chat", bytes |-> ClientFrame16(1, PayloadChat)],
     [kind |-> "chat", bytes |-> ClientMasked16(1, PayloadChat)],
     [kind |-> "chat", bytes |-> ClientFrame64(1, PayloadChat)],
     [kind |-> "keepalive", bytes |-> ClientMasked(1, PayloadKeepalive)],
     [kind |-> "pong", bytes |-> ClientFrame(10, <<>>)],
     [kind |-> "ping", bytes |-> ClientFrame(9, <<>>)],
     [kind |-> "close", bytes |-> ClientMasked(8, <<>>)]}

Streams == UNION {[1..n -> StreamFrames] : n \in 1..MaxStream}

InitChunk ==
    /\ BurstState(1)
    /\ \E fs \in Streams :
          codec = [stage |-> "stream", frames |-> fs, rest |-> Bytes(fs), out |-> <<>>,
                   cut |-> FALSE,
                   whole |-> ReadLoop(1, HandlerStart(1, Bytes(fs)))]

\* the next k bytes of the stream arrive as one chunk
Feed(k) ==
    /\ codec.stage = "stream"
    /\ k \in 1..Len(codec.rest)
    /\ OnData(1, SubSeq(codec.rest, 1, k))
    /\ codec' = [codec EXCEPT !.rest = SubSeq(@, k + 1, Len(@)),
                              !.out = @ \o sent',
                              !.cut = @ \/ clients'[1].buf # <<>>]
    /\ quiet' = [quiet EXCEPT ![1] = 0]
    /\ UNCHANGED heard

NextChunk == \E k \in 1..Len(codec.rest) : Feed(k)

SpecChunk == InitChunk /\ [][NextChunk]_vars

\* bursts of chat messages over two window lengths, sent by the socket admitted
\* last while the ones admitted before it listen
Burst ==
    [lo |-> BurstSockets, hi |-> BurstSockets, logCap |-> BurstLog,
     nicks |-> {NoNick},
     chunks |-> Single({"chat"})]

NextBurst ==
    \/ Events(Burst)
    \/ \E d \in ClockSteps : Advance(d, BurstClock)

SpecBurst == Init /\ [][NextBurst]_vars

\* ?nick= of one character more than MAX_NICK_LEN
NickLong == [i \in 1..(MAX_NICK_LEN + 1) |-> "n"]

\* nicknames of full length, asked for by several sockets
Long ==
    [lo |-> 1, hi |-> LongSockets, logCap |-> LongLog,
     nicks |-> {NickLong, NoNick},
     chunks |-> Single({"close", "chat"})]

NextLong == Events(Long) \/ KeepaliveTick

SpecLong == Init /\ [][NextLong]_vars

\* ── Claims ──────────────────────────────────────────────────────────────────
Admitted == 1..(nextId - 1)

Removed == Admitted \ DOMAIN clients

\* C1: every connection that was admitted and has left the registry, whatever
\* ended it, has had exactly one leave message appended to history.
C1_TeardownLeavesOnce == \A s \in Removed : leaves[s] = 1

\* C2: whatever triggers race for a connection, at most one leave message is
\* ever appended for it; once it is out of the registry it stays out, no further
\* leave message is appended for it, and its 'error' and 'close' callbacks leave
\* the registry and the history unchanged.
C2_TeardownIdempotent ==
    /\ [](\A s \in Admitted : leaves[s] <= 1)
    /\ [][\A s \in Removed :
            /\ s \notin DOMAIN clients'
            /\ leaves'[s] = leaves[s]
            /\ (EmitError(s) \/ EmitClose(s))
                  => (clients' = clients /\ history' = history)]_vars

\* C2 witness: a connection torn down with its leave message by the 'error'
\* callback while its 'close' callback is still to run.
C2_Witness ==
    \E s \in Removed : s \in pendingClose /\ leaves[s] = 1

\* C3: no two registered connections have the same nickname.
C3_NickUnique ==
    \A s \in DOMAIN clients : \A t \in DOMAIN clients :
        s # t => clients[s].nick # clients[t].nick

\* C3 witness: two registered connections that asked for the same nickname.
C3_Witness ==
    \E s \in DOMAIN clients : \E t \in DOMAIN clients :
        s # t /\ desired[s] = desired[t]

\* the name the claim resolves to: want when free, otherwise want followed by
\* the smallest n >= 2 whose name is free
ResolvedNick(want, taken) ==
    IF want \notin taken THEN want
    ELSE LET free(n) == (want \o Decimal(n)) \notin taken
             n == CHOOSE k \in 2..(Cardinality(taken) + 2) :
                      free(k) /\ \A m \in 2..(k - 1) : ~free(m)
         IN  want \o Decimal(n)

\* C4: an admission gives the connection the sanitized requested name when no
\* registered connection holds it, and otherwise the name followed by the
\* smallest n >= 2 that makes it free.
C4_NickResolution ==
    [][nextId' # nextId =>
         clients'[nextId].nick = ResolvedNick(desired'[nextId], Taken(clients))]_vars

\* C4 witness: three registered connections asked for the same name and hold
\* name, name2 and name3.
C4_Witness ==
    \E a \in DOMAIN clients : \E b \in DOMAIN clients : \E c \in DOMAIN clients :
        /\ desired[a] = desired[b] /\ desired[b] = desired[c]
        /\ clients[a].nick = desired[a]
        /\ clients[b].nick = desired[a] \o <<"2">>
        /\ clients[c].nick = desired[a] \o <<"3">>

\* C5: the history never holds more than 50 entries, and after n appends (chat,
\* join and leave messages) it is the last min(n, 50) appended entries in append
\* order.
C5_HistoryLastFifty ==
    /\ Len(history) <= MAX_HISTORY
    /\ history = SubSeq(log, Len(log) - Min(Len(log), MAX_HISTORY) + 1, Len(log))

\* C5 witness: after 51 appends, a chat message and a leave message among them,
\* the history is entries 2 to 51.
C5_Witness ==
    /\ Len(log) = MAX_HISTORY + 1
    /\ history = SubSeq(log, 2, MAX_HISTORY + 1)
    /\ \E i \in 1..Len(history) : history[i].type = "message"
    /\ \E s \in Removed : leaves[s] = 1

\* what a chat message from s finds: whether it arrives within the rate window
\* and how many messages the window has counted
WithinWindow(s) == now - clients[s].rateStart <= RATE_LIMIT_WIN

CountedBefore(s) == IF WithinWindow(s) THEN clients[s].rateCount ELSE 0

\* the step appended one chat message from s and broadcast it
Delivered(s) ==
    /\ Len(log') = Len(log) + 1
    /\ log'[Len(log')].type = "message"
    /\ log'[Len(log')].nick = clients[s].nick
    /\ history' = addToHistory(history, log'[Len(log')])
    /\ sent' = broadcast(log'[Len(log')], clients, destroyed)
    /\ s \notin destroyed'

\* the step appended nothing, wrote to no socket but s and destroyed s
Kicked(s) ==
    /\ log' = log
    /\ history' = history
    /\ \A i \in 1..Len(sent') : sent'[i].to \in {s, Console}
    /\ s \in destroyed'

\* the step counted the message in the window of s
Counted(s) ==
    /\ clients'[s].rateCount = CountedBefore(s) + 1
    /\ clients'[s].rateStart = IF WithinWindow(s) THEN clients[s].rateStart ELSE now

\* C6 as stated: of the chat messages of a connection, the first 5 of a rate
\* window are each appended to history and broadcast, the 6th is not broadcast
\* and destroys the socket, and one that arrives more than 1000 ms after the
\* window start restarts the window.
C6_FirstFiveDelivered ==
    [][\A s \in DOMAIN clients : \A fs \in Rate.chunks :
          Data(s, fs) =>
              /\ Counted(s)
              /\ CountedBefore(s) < RATE_LIMIT_MSG => Delivered(s)
              /\ CountedBefore(s) >= RATE_LIMIT_MSG => Kicked(s)]_vars

\* the step counted a message without appending or writing anything
Dropped(s) ==
    /\ log' = log
    /\ history' = history
    /\ sent' = <<>>
    /\ s \notin destroyed'

\* C6 amended: the first 5 chat messages of a rate window are each counted, and
\* appended to history and broadcast when their trimmed text is not empty; the
\* 6th is not broadcast and destroys the socket; one that arrives more than
\* 1000 ms after the window start restarts the window and is its first message.
C6_RateLimit ==
    [][\A s \in DOMAIN clients : \A fs \in Rate.chunks :
          Data(s, fs) =>
              /\ Counted(s)
              /\ CountedBefore(s) < RATE_LIMIT_MSG =>
                    IF "blank" \in Kinds(fs) THEN Dropped(s) ELSE Delivered(s)
              /\ CountedBefore(s) >= RATE_LIMIT_MSG => Kicked(s)]_vars

\* C6 witness: a connection whose window restarted, which then had a message
\* delivered in the new window and was kicked by the 6th of that window.
C6_Witness ==
    \E s \in DOMAIN clients :
        /\ clients[s].rateStart = RATE_LIMIT_WIN + 1
        /\ clients[s].rateCount = RATE_LIMIT_MSG + 1
        /\ s \in destroyed
        /\ LogLine("rate-kick", s) \in Range(sent)
        /\ \E i \in 1..Len(log) :
              log[i].type = "message" /\ log[i].ts = RATE_LIMIT_WIN + 1

\* what a refused upgrade writes
RejectedFull ==
    <<LogLine("reject", 0), Write(0, HttpResponse(503)), Write(0, DestroyFrame)>>

RejectedNoKey == <<Write(0, DestroyFrame)>>

\* C7: the registry never holds more than 100 connections; an upgrade that finds
\* 100 registered is answered 503 with no handshake, and it, like an upgrade
\* without Sec-WebSocket-Key, registers nothing, consumes no id, and appends and
\* broadcasts nothing.
C7_RegistryCap ==
    /\ [](Cardinality(DOMAIN clients) <= MAX_CLIENTS)
    /\ [][\A hasKey \in BOOLEAN : \A rawNick \in Full.nicks :
            (/\ Upgrade(TRUE, hasKey, rawNick)
             /\ (Cardinality(DOMAIN clients) >= MAX_CLIENTS \/ ~hasKey))
                => /\ clients' = clients
                   /\ nextId' = nextId
                   /\ history' = history
                   /\ log' = log
                   /\ sent' = IF Cardinality(DOMAIN clients) >= MAX_CLIENTS
                              THEN RejectedFull ELSE RejectedNoKey]_vars

\* C7 witness: 100 connections are registered and the last upgrade was refused
\* with 503.
C7_Witness ==
    /\ Cardinality(DOMAIN clients) = MAX_CLIENTS
    /\ sent = RejectedFull

\* C8: a registered connection that sends nothing is gone after at most two
\* ticks: a tick that finds its flag true clears it and sends a ping, a tick that
\* finds it false destroys the socket and removes the connection.
C8_SilentEvicted ==
    /\ [](\A s \in DOMAIN clients :
            quiet[s] <= 1 /\ (quiet[s] = 1 => ~clients[s].alive))
    /\ [][KeepaliveTick =>
            \A s \in DOMAIN clients : s \notin destroyed =>
                IF clients[s].alive
                THEN /\ s \in DOMAIN clients'
                     /\ ~clients'[s].alive
                     /\ Write(s, buildPing) \in Range(sent')
                ELSE /\ s \notin DOMAIN clients'
                     /\ s \in destroyed']_vars

\* C8 witness: the last tick found the only connection ever admitted, which
\* never chatted, with its flag false and evicted it.
C8_Witness ==
    /\ nextId = 2
    /\ Len(log) = 1
    /\ clients = <<>>
    /\ sent = <<LogLine("timeout", 1)>>
    /\ 1 \in pendingClose

\* C9: a tick keeps every registered connection that delivered a pong frame or a
\* client keepalive since the previous tick and whose socket is open, whatever
\* the other connections did.
C9_AnsweringSurvives ==
    [][KeepaliveTick =>
         \A s \in DOMAIN clients : (Answered(s) /\ s \notin destroyed) =>
             (s \in DOMAIN clients' /\ s \notin destroyed')]_vars

\* C9 witness: the last tick evicted a connection, which an earlier tick had
\* found alive, and kept an older one, which has therefore answered in between.
C9_Witness ==
    \E s \in DOMAIN clients : \E t \in Removed :
        /\ s < t
        /\ sent = <<Write(s, buildPing), LogLine("timeout", t)>>
        /\ quiet[s] = 1

\* C10 as stated: any frame received since the previous tick, a chat message and
\* a WebSocket ping frame as well as a pong frame and a client keepalive, leaves
\* the liveness flag true.
C10_AnyActivitySetsFlag ==
    \A s \in DOMAIN clients : heard[s] # {} => clients[s].alive

\* C10 amended: a pong frame or a client keepalive received since the previous
\* tick leaves the liveness flag true; a chat message and a WebSocket ping frame
\* leave the flag as it was.
C10_AnswerSetsFlag ==
    /\ [](\A s \in DOMAIN clients : Answered(s) => clients[s].alive)
    /\ [][\A s \in DOMAIN clients : \A fs \in Keepalive.chunks :
            (Data(s, fs) /\ Kinds(fs) \subseteq {"chat", "ping"})
                => clients'[s].alive = clients[s].alive]_vars

\* C10 witness: two connections went through a tick; since then the older one
\* answered and has its flag true, and the younger one chatted and has its flag
\* false.
C10_Witness ==
    \E s \in DOMAIN clients : \E t \in DOMAIN clients :
        /\ t < s
        /\ heard[s] = {"other"} /\ ~clients[s].alive
        /\ "answer" \in heard[t] /\ clients[t].alive

\* C11: a text frame whose payload is not a client envelope (not JSON, or null,
\* a number, a string, an array, an object of another type, a message whose text
\* is no string) is discarded silently: the registry with the rate and liveness
\* state of its connections, the history and the sockets stay as they were,
\* nothing is written, and the server goes on processing frames.
C11_MalformedDiscarded ==
    [][\A s \in DOMAIN clients : \A fs \in Malformed.chunks :
          (Data(s, fs) /\ Kinds(fs) \subseteq MalformedKinds)
              => /\ clients' = clients
                 /\ history' = history
                 /\ destroyed' = destroyed
                 /\ sent' = <<>>
                 /\ running']_vars

\* what a step wrote to sockets, console lines left out
SocketWrites(out) == SelectSeq(out, LAMBDA w : w.to # Console)

WritesTo(out, t) == SelectSeq(out, LAMBDA w : w.to = t)

\* C12: an admission writes to the new connection, after the 101 response, the
\* history as it was before the join (nothing when it was empty), then the
\* identity, then the join message; the join message carries the registry size
\* after the join, is appended to history, and is written once to every other
\* registered connection with an open socket, which get nothing else.
C12_AdmissionOrder ==
    [][nextId' # nextId =>
         LET id == nextId
             join == SystemMsg(clients'[id].nick \o JoinedText, now,
                               Cardinality(DOMAIN clients'))
             out == SocketWrites(sent')
         IN  /\ WritesTo(out, id) =
                    <<Write(id, HttpResponse(101))>>
                    \o (IF history # <<>>
                        THEN <<Write(id, TextFrame(HistoryMsg(history)))>> ELSE <<>>)
                    \o <<Write(id, TextFrame(IdentityMsg(clients'[id].nick))),
                         Write(id, TextFrame(join))>>
             /\ history' = addToHistory(history, join)
             /\ log' = Append(log, join)
             /\ \A t \in Admitted :
                    WritesTo(out, t) =
                        IF t \in DOMAIN clients /\ t \notin destroyed
                        THEN <<Write(t, TextFrame(join))>> ELSE <<>>
             /\ out[Len(out)].to = id]_vars

\* C12 witness: the third connection was just admitted, got a history snapshot,
\* and of the two others one has an open socket and one a destroyed socket.
C12_Witness ==
    /\ nextId = 4
    /\ DOMAIN clients = {1, 2, 3}
    /\ Cardinality(destroyed) = 1
    /\ 3 \notin destroyed
    /\ Len(WritesTo(sent, 3)) = 4
    /\ Len(SocketWrites(sent)) = 5

\* the history entries among the messages a step wrote to socket t, in order:
\* chat messages and the system messages that carry a count
IsEntry(w) ==
    /\ w.data.kind = "text"
    /\ \/ w.data.obj.type = "message"
       \/ w.data.obj.type = "system" /\ "count" \in DOMAIN w.data.obj

EntriesTo(out, t) ==
    LET ws == SelectSeq(WritesTo(out, t), IsEntry)
    IN  [i \in 1..Len(ws) |-> ws[i].data.obj]

\* C13: a step writes to every registered connection with an open socket exactly
\* the entries it appends to history, in append order, and writes no entry to
\* anyone else; so what a connection receives from its admission to the
\* destruction of its socket continues the append order with no gap or repeat.
C13_BroadcastInAppendOrder ==
    [][LET new == SubSeq(log', Len(log) + 1, Len(log'))
       IN  /\ log' = log \o new
           /\ \A t \in 1..nextId :
                  EntriesTo(sent', t) =
                      IF t \in DOMAIN clients' /\ t \notin destroyed
                      THEN new ELSE <<>>]_vars

\* C13 witness: a chat message was just appended and written to an open
\* connection registered after one whose socket is destroyed.
C13_Witness ==
    /\ log # <<>>
    /\ log[Len(log)].type = "message"
    /\ \E s \in DOMAIN clients : \E t \in DOMAIN clients :
          /\ s < t
          /\ s \in destroyed
          /\ EntriesTo(sent, t) = <<log[Len(log)]>>

\* frame f from s ends the connection: a close frame, or a chat message that is
\* the 6th of its rate window
Terminates(s, f) ==
    \/ f.kind = "close"
    \/ f.kind \in {"chat", "blank"} /\ CountedBefore(s) >= RATE_LIMIT_MSG

\* C14: once the socket of a registered connection is destroyed, no step changes
\* its liveness flag, rate window or buffer or appends a chat message of its; and
\* a frame that sits behind a close frame or a kicking message in the same chunk
\* stays in the buffer: it appends nothing, is broadcast to nobody and changes
\* neither the liveness flag nor the rate window.
C14_NothingAfterTermination ==
    /\ [][\A s \in destroyed \cap DOMAIN clients :
            /\ s \in DOMAIN clients' => clients'[s] = clients[s]
            /\ \A i \in (Len(log) + 1)..Len(log') :
                  ~(log'[i].type = "message" /\ log'[i].nick = clients[s].nick)]_vars
    /\ [][\A s \in DOMAIN clients : \A fs \in Cancel.chunks :
            (Data(s, fs) /\ Len(fs) = 2 /\ Terminates(s, fs[1]))
                => /\ s \in destroyed'
                   /\ log' = log
                   /\ history' = history
                   /\ \A t \in 1..nextId : EntriesTo(sent', t) = <<>>
                   /\ clients'[s].alive = clients[s].alive
                   /\ clients'[s].rateCount =
                          IF fs[1].kind = "close" THEN clients[s].rateCount
                          ELSE CountedBefore(s) + 1
                   /\ clients'[s].buf = fs[2].bytes]_vars

\* C14 witness: a connection kicked by the 6th message of its window, still
\* registered, with the frame that followed the message left in its buffer.
C14_Witness ==
    \E s \in DOMAIN clients :
        /\ s \in destroyed
        /\ clients[s].rateCount = RATE_LIMIT_MSG + 1
        /\ clients[s].buf # <<>>

\* the header width the claim requires for a payload of len bytes
MinimalHeader(len) == IF len < 126 THEN 2 ELSE IF len < 65536 THEN 4 ELSE 10

\* C15: parseFrame(buildFrame(text)) has opcode 1, the bytes of text as payload
\* and the whole frame as totalLength; the frame has a header of 2 bytes for
\* fewer than 126 payload bytes, of 4 for fewer than 65536, otherwise of 10 with
\* the high 32-bit word of the length zero.
C15_CodecRoundTrip ==
    codec.stage = "parsed" =>
        LET len == Len(codec.payload)
        IN  /\ codec.parsed.ok
            /\ codec.parsed.opcode = 1
            /\ codec.parsed.payload = codec.payload
            /\ codec.parsed.totalLength = Len(codec.frame)
            /\ Len(codec.frame) = MinimalHeader(len) + len
            /\ len >= 65536 => SubSeq(codec.frame, 3, 6) = <<0, 0, 0, 0>>

\* C15 witness: a text of 126 bytes, the shortest with a 16-bit length, went
\* through buildFrame and parseFrame.
C15_Witness ==
    /\ codec.stage = "parsed"
    /\ Len(codec.payload) = 126
    /\ codec.frame[2] = 126
    /\ codec.parsed.ok

\* the stream has arrived, or the handler has ended the connection
StreamDone == codec.rest = <<>> \/ 1 \in destroyed

\* C16: parseFrame finds no frame in a proper prefix of a frame, whatever its
\* masking and length encoding; the bytes not yet parsed are kept, so that
\* buffer and bytes still to arrive are at any time the unread rest of the
\* stream; and when the stream has arrived cut into chunks in any way, the
\* handler has written and appended the same, in the same order, and left the
\* same flag, rate window and buffer as when the stream arrives as one chunk.
C16_ChunkingIndependent ==
    codec.stage = "stream" =>
        /\ \A i \in 1..Len(codec.frames) :
              \A k \in 0..(Len(codec.frames[i].bytes) - 1) :
                  ~parseFrame(SubSeq(codec.frames[i].bytes, 1, k)).ok
        /\ LET whole == Bytes(codec.frames)
               unread == clients[1].buf \o codec.rest
           IN  unread = SubSeq(whole, Len(whole) - Len(unread) + 1, Len(whole))
        /\ StreamDone =>
              /\ codec.out = codec.whole.sent
              /\ SubSeq(log, 2, Len(log)) = codec.whole.appended
              /\ history = codec.whole.history
              /\ clients[1].alive = codec.whole.alive
              /\ clients[1].rateCount = codec.whole.rateCount
              /\ clients[1].buf \o codec.rest = codec.whole.buf
              /\ (1 \in destroyed) = codec.whole.dead

\* C16 witness: a stream of two frames, a masked chat message with a 16-bit
\* length among them, has arrived in chunks that cut a frame, and both frames
\* were dispatched.
C16_Witness ==
    /\ codec.stage = "stream"
    /\ codec.rest = <<>>
    /\ Len(codec.frames) = 2
    /\ \E i \in 1..2 : codec.frames[i].bytes = ClientMasked16(1, PayloadChat)
    /\ Len(codec.whole.appended) = 2
    /\ Len(log) = 3
    /\ codec.cut

\* the chat messages accepted from the connection that sent entry i, from entry
\* i on and no more than 1000 ms after it
AcceptedWithinWindowOf(i) ==
    {j \in i..Len(log) :
        /\ log[j].type = "message"
        /\ log[j].nick = log[i].nick
        /\ log[j].ts <= log[i].ts + RATE_LIMIT_WIN
        /\ \A k \in i..j : log[k].type = "system" =>
                                log[k].text # log[i].nick \o JoinedText}

Identities ==
    {sent[i].data.obj : i \in {j \in 1..Len(sent) :
        /\ sent[j].to # Console
        /\ sent[j].data.kind = "text"
        /\ sent[j].data.obj.type = "identity"}}

\* C18: every nickname of a registered connection, as confirmed in its identity
\* message, has at most 24 characters, numeric uniqueness suffix included.
C18_NickAtMostMaxLen ==
    /\ \A s \in DOMAIN clients : Len(clients[s].nick) <= MAX_NICK_LEN
    /\ \A m \in Identities : Len(m.nick) <= MAX_NICK_LEN

\* the step wrote to no socket but s: nothing was broadcast
NotBroadcast(s) == \A i \in 1..Len(sent') : sent'[i].to \in {s, Console}

\* C19: a chat message whose trimmed text is empty is neither appended to
\* history nor broadcast, but it is counted in the rate window of its sender,
\* and as the 6th chat message of the window it gets the socket destroyed.
C19_EmptyTextCounted ==
    [][\A s \in DOMAIN clients : \A fs \in Single({"blank"}) :
          Data(s, fs) =>
              /\ log' = log
              /\ history' = history
              /\ NotBroadcast(s)
              /\ Counted(s)
              /\ s \in destroyed' <=> CountedBefore(s) >= RATE_LIMIT_MSG]_vars

\* C19 witness: a connection kicked for its 6th chat message of a window, none
\* of the six with a text: no chat message was ever appended.
C19_Witness ==
    \E s \in DOMAIN clients :
        /\ clients[s].rateCount = RATE_LIMIT_MSG + 1
        /\ s \in destroyed
        /\ sent = <<LogLine("rate-kick", s), Write(s, TextFrame(WarnMsg(now)))>>
        /\ \A i \in 1..Len(log) : log[i].type # "message"

\* C20: no dead connection stays registered forever: when the queued socket
\* events are delivered, a registered connection whose socket was destroyed is
\* eventually removed from the registry.
C20_DeadEventuallyRemoved ==
    \A s \in 1..FairSockets :
        (s \in DOMAIN clients /\ s \in destroyed) ~> (s \notin DOMAIN clients)

\* C20 witness: the first connection, which held the nickname B, was destroyed
\* and removed with all its events delivered, and a later connection holds B.
C20_Witness ==
    /\ 1 \in destroyed
    /\ 1 \notin DOMAIN clients
    /\ 1 \notin pendingClose
    /\ \E t \in DOMAIN clients : t > 1 /\ clients[t].nick = NickB

====
